---- MODULE Spec2Model ----
(***************************************************************************)
(* Browser front end of the RAG Document Assistant (static/js/app.js, the  *)
(* latest revision, lines 293-667) together with the retrieval service it  *)
(* talks to.  The service (app/api, app/services) is not part of the       *)
(* sources at hand; it is modelled from the design specification,          *)
(* sections 3 to 7, and its definitions carry the prefix Server or are     *)
(* marked "service" below.                                                 *)
(*                                                                         *)
(* Encodings: null is 0 for sessionId, maxChapter, document_id and         *)
(* max_chapter (the script tests all of them for truthiness only); the     *)
(* text of the question box is a sequence of one-character strings.        *)
(***************************************************************************)
EXTENDS Naturals, Integers, Sequences, FiniteSets, TLC

\* ------------------------------------------------------------------ bounds
MaxDocs == 2          \* documents ever registered
MaxBooks == 1         \* documents registered when the page is loaded
MaxAsks == 2          \* ask requests in flight at once
MaxDocCalls == 2      \* list / delete / upload requests in flight at once
MaxTurns == 2         \* ask requests ever issued
MaxMessages == 5      \* messages in the chat pane
MaxSessions == 2      \* session ids ever generated
MaxSources == 3       \* sources of one answer
\* the sizes of the larger specifications, which leave the overlap of calls
\* and the renewal of session ids to the smaller ones
ChatAsksAtOnce == 1   \* Spec: ask requests in flight at once
ChatSessionIds == 1   \* Spec: session ids ever generated
DocsCallsAtOnce == 1  \* SpecDocs: list / delete requests in flight at once
PageMessages == 2     \* SpecPage: messages in the chat pane

\* ------------------------------------------------------- program constants
DefaultChapters == 50 \* parseInt(...) || 50
StartChapter == 10    \* Math.min(10, maxVal)
SimpleMaxChunks == 3  \* body = {question, max_chunks: 3}
SliderMin == 1        \* if (currentVal <= 1), parseInt(slider.value) || 1

\* ------------------------------------------------ service design constants
ContextWindow == 2    \* "prior turns up to an implementation-defined window"

\* ------------------------------------------------------------ input sets
\* what the user can type into the question box: blanks only, and a
\* question with blanks around it
QuestionInputs ==
    { <<" ">>, <<" ", "a", " ">> }

\* positions the user can drag the chapter slider to
SliderInputs == {1, 2, 12, 50}

\* ceilings a caller of the service may request (0 = none)
CeilingInputs == {0, 1, 2, 3, 4, 10, 12, 50, 999}

\* the outcome of processing an uploaded file: a chapter count and chunks
\* [idx: chunk_index, chapter: chapter number, ref: is_reference]
DocShapes ==
    { [total_chapters |-> 3,
       chunks |-> { [idx |-> 0, chapter |-> 1, ref |-> FALSE],
                    [idx |-> 1, chapter |-> 3, ref |-> FALSE],
                    [idx |-> 2, chapter |-> 3, ref |-> TRUE] }],
      [total_chapters |-> 0,
       chunks |-> { [idx |-> 0, chapter |-> 7, ref |-> FALSE] }],
      [total_chapters |-> 12,
       chunks |-> { [idx |-> 0, chapter |-> 2, ref |-> TRUE],
                    [idx |-> 1, chapter |-> 11, ref |-> FALSE],
                    [idx |-> 2, chapter |-> 12, ref |-> TRUE] }] }

VARIABLES
    \* ---- script state (app.js 296-299)
    currentMode, sessionId, spoilerProtectionEnabled, maxChapter,
    \* ---- DOM state the handlers read and write
    questionInput,      \* #questionInput.value
    askBtnDisabled,     \* #askBtn.disabled
    messages,           \* children of #messages, oldest first
    sliderValue,        \* #chapterSlider.value
    sliderMax,          \* #chapterSlider.max
    sliderDisabled,     \* #chapterSlider.disabled
    filterOptions,      \* <option>s of #documentFilter
    selectedIndex,      \* #documentFilter.selectedIndex (1-based)
    documentList,       \* rows of #documentList
    headerStatus,       \* #headerStatus text
    \* ---- requests in flight
    asks,               \* askQuestion calls awaiting their response
    docCalls,           \* loadDocuments / deleteDocument / uploadDocument calls
    statusNet,          \* loadStatus calls
    \* ---- service state (modelled from the design specification)
    registry,           \* Document Registry: id -> document
    nextDocId,          \* next id the registry assigns
    sessions,           \* Session Store: session id -> history
    \* ---- environment and history variables
    nextSession,        \* number of session ids generated so far
    turns,              \* number of ask requests issued so far
    answeredLog,        \* per session id: answered (question, answer) pairs,
                        \* in the order the calls finished at the caller
    overlap,            \* session ids that had two asks in flight at once
    \* ---- addMessage rendering the sources of an answer (app.js 614-627)
    sourcesArg,         \* the sources argument, in the order of the response
    reduced,            \* number of its elements sources.reduce has visited
    sourceMap,          \* the accumulator: its properties in creation order
    sourceHtml          \* groups of the .compact-sources line, left to right

clientVars == <<currentMode, sessionId, spoilerProtectionEnabled, maxChapter,
                questionInput, askBtnDisabled, messages>>
sliderVars == <<sliderValue, sliderMax, sliderDisabled>>
docViewVars == <<filterOptions, selectedIndex, documentList>>
netVars == <<asks, docCalls, statusNet, headerStatus>>
serverVars == <<registry, nextDocId, sessions>>
ghostVars == <<nextSession, turns, answeredLog, overlap>>
renderVars == <<sourcesArg, reduced, sourceMap, sourceHtml>>

vars == <<currentMode, sessionId, spoilerProtectionEnabled, maxChapter,
          questionInput, askBtnDisabled, messages,
          sliderValue, sliderMax, sliderDisabled,
          filterOptions, selectedIndex, documentList, headerStatus,
          asks, docCalls, statusNet,
          registry, nextDocId, sessions,
          nextSession, turns, answeredLog, overlap,
          sourcesArg, reduced, sourceMap, sourceHtml>>

\* ----------------------------------------------------------------- helpers
Min(a, b) == IF a <= b THEN a ELSE b
Max(a, b) == IF a >= b THEN a ELSE b
Range(s) == { s[i] : i \in 1..Len(s) }
LastN(s, n) == IF Len(s) <= n THEN s ELSE SubSeq(s, Len(s) - n + 1, Len(s))

RECURSIVE TrimStart(_)
TrimStart(s) ==
    IF s = <<>> THEN s
    ELSE IF Head(s) = " " THEN TrimStart(Tail(s)) ELSE s

RECURSIVE TrimEnd(_)
TrimEnd(s) ==
    IF s = <<>> THEN s
    ELSE IF s[Len(s)] = " " THEN TrimEnd(SubSeq(s, 1, Len(s) - 1)) ELSE s

\* String.prototype.trim
Trim(s) == TrimEnd(TrimStart(s))

SessionIds == 1..MaxSessions
DocIds == 1..MaxDocs

\* =====================================================================
\* The retrieval service, from the design specification
\* =====================================================================

\* the registry with no document
NoDocs == [d \in {} |-> 0]

\* a freshly uploaded document: registered, not processed yet (section 3)
NewDocument == [total_chapters |-> 0, chunks |-> {}]

\* what the registry may hold when the page is loaded: up to MaxBooks
\* processed documents
Registries == UNION { [1..n -> DocShapes] : n \in 0..MaxBooks }

\* a book of three chapters
Book == CHOOSE shape \in DocShapes : shape.total_chapters = 3

\* a registry with one book
OneBook == [d \in {1} |-> Book]

\* registries of up to MaxBooks books
Shelves == { [d \in 1..n |-> Book] : n \in 0..MaxBooks }

\* 4.1 list(): the registered documents, in id order
RECURSIVE ListFrom(_, _)
ListFrom(reg, d) ==
    IF d > MaxDocs THEN <<>>
    ELSE IF d \in DOMAIN reg
         THEN <<[id |-> d, total_chapters |-> reg[d].total_chapters]>>
              \o ListFrom(reg, d + 1)
         ELSE ListFrom(reg, d + 1)

ServerList(reg) == ListFrom(reg, 1)

\* the ceiling as it would be if an unknown chapter count (0) were taken
\* for the default count of the page
ClampCeilingDefault(max_chapter, total_chapters) ==
    IF max_chapter = 0 THEN 0
    ELSE IF total_chapters = 0
    THEN Min(Max(max_chapter, 1), DefaultChapters)
    ELSE Min(Max(max_chapter, 1), total_chapters)

\* 4.2 the ceiling of a single-document scope: absent when none was asked
\* for, absent when the document's chapter count is unknown (0), otherwise
\* the request clamped to [1, total_chapters]
ClampCeiling(max_chapter, total_chapters) ==
    IF max_chapter = 0 \/ total_chapters = 0 THEN 0
    ELSE Min(Max(max_chapter, 1), total_chapters)

\* 4.2 resolveScope(document_id?, max_chapter?, include_reference?)
ResolveScope(reg, document_id, max_chapter, include_reference) ==
    IF document_id # 0 /\ document_id \notin DOMAIN reg
    THEN [status |-> "NotFound", docs |-> {}, ceiling |-> 0,
          include_reference |-> include_reference]
    ELSE IF document_id # 0
    THEN [status |-> "ok", docs |-> {document_id},
          ceiling |-> ClampCeiling(max_chapter, reg[document_id].total_chapters),
          include_reference |-> include_reference]
    ELSE [status |-> "ok", docs |-> DOMAIN reg, ceiling |-> max_chapter,
          include_reference |-> include_reference]

\* 4.2 the ceiling a scope applies to the chunks of document d: the scope's
\* ceiling bounded by the document's own chapter count
DocCeiling(reg, scope, d) ==
    ClampCeiling(scope.ceiling, reg[d].total_chapters)

\* the chunk filter as it would be if reference inclusion were a separate
\* branch for the chunks beyond the ceiling only
ChunkPassesSplit(chunk, ceiling, include_reference) ==
    \/ ceiling = 0
    \/ (~include_reference /\ chunk.chapter <= ceiling)
    \/ (include_reference /\ ~chunk.ref /\ chunk.chapter <= ceiling)
    \/ (include_reference /\ chunk.ref /\ chunk.chapter > ceiling)

\* 4.2 a chunk passes a ceiling when there is none, when its chapter is
\* within it, or when it is reference material and references are included
ChunkPasses(chunk, ceiling, include_reference) ==
    \/ ceiling = 0
    \/ chunk.chapter <= ceiling
    \/ (include_reference /\ chunk.ref)

\* the chunks a resolved scope makes eligible for retrieval, as citations
EligibleChunks(reg, scope) ==
    { [doc |-> d, idx |-> c.idx, chapter |-> c.chapter, ref |-> c.ref] :
        <<d, c>> \in
          { dc \in UNION { {d2} \X reg[d2].chunks : d2 \in scope.docs } :
              ChunkPasses(dc[2], DocCeiling(reg, scope, dc[1]),
                          scope.include_reference) } }

\* retrieval returns the k best eligible chunks; which ones is up to the
\* ranking, so every choice of k is possible
Retrieve(eligible, k) ==
    { S \in SUBSET eligible : Cardinality(S) = Min(k, Cardinality(eligible)) }

\* 4.4 status()
ServerStatus(reg) ==
    [documents_loaded |-> Cardinality(DOMAIN reg),
     total_chunks |-> Cardinality(UNION { {d} \X reg[d].chunks : d \in DOMAIN reg }),
     status |-> IF \E d \in DOMAIN reg : reg[d].chunks # {}
                THEN "ready" ELSE "not_ready"]

\* 4.3 the history of a session id; an unknown id has none yet
History(store, sid) == IF sid \in DOMAIN store THEN store[sid] ELSE <<>>

\* =====================================================================
\* The front end, from static/js/app.js
\* =====================================================================

\* an element of #messages; banner is the chapter ceiling of the spoiler
\* banner (0 = no banner); stale tells that the call that appended it had
\* been abandoned by a reset or a mode switch (history variable)
Msg(role, kind, text, banner, stale) ==
    [role |-> role, kind |-> kind, text |-> text, banner |-> banner,
     stale |-> stale]

Notice(name) == Msg("assistant", "notice", <<name>>, 0, FALSE)

\* addMessage: appends one element to #messages
addMessage(list, m) == Append(list, m)

\* generateSessionId: 'session_' + Date.now() + '_' + random digits. Two
\* calls are separated by an action of the user (a click, the confirm
\* dialog), so that their clock readings differ: the call after n earlier
\* ones returns the n-th id, different from those before it
generateSessionId(n) == n + 1

\* a free slot of the ask table
IdleAsk ==
    [state |-> "idle", endpoint |-> "none", session_id |-> 0,
     document_id |-> 0, max_chapter |-> 0, max_chunks |-> 0,
     question |-> <<>>, shape |-> "none", errClass |-> "none",
     answer |-> <<>>, sources |-> {}, spoiler_filter_active |-> FALSE,
     echo |-> 0, context |-> <<>>,
     \* history variables: the mode, the session and the selected document
     \* of the caller when it asked, whether it has abandoned the call, and
     \* whether the scope the service resolved matched any chunk
     mode |-> "none", conversation |-> 0, selected |-> 0,
     abandoned |-> FALSE, matched |-> FALSE]

\* a free slot of the document-call table
IdleDocCall ==
    [state |-> "idle", kind |-> "none", id |-> 0, ok |-> FALSE, docs |-> <<>>]

AsksInFlight == { i \in 1..MaxAsks : asks[i].state # "idle" }
DocCallsInFlight == { i \in 1..MaxDocCalls : docCalls[i].state # "idle" }

\* messages that calls in flight will still append when they finish
PendingAppends ==
    Cardinality(AsksInFlight)
    + Cardinality({ i \in DocCallsInFlight : docCalls[i].kind # "list" })

Room(n) == Len(messages) + PendingAppends + n <= MaxMessages

\* every ask in flight is marked as abandoned by its caller
Abandon(table) == [i \in 1..MaxAsks |->
                     IF table[i].state = "idle" THEN table[i]
                     ELSE [table[i] EXCEPT !.abandoned = TRUE]]

\* setMode as it would be if entering conversational mode registered the
\* new session with the service
setModeEager(mode) ==
    /\ mode \in {"simple", "conversational"}
    /\ Room(1)
    /\ currentMode' = mode
    /\ IF mode = "conversational"
       THEN /\ IF sessionId = 0
               THEN /\ nextSession < MaxSessions
                    /\ sessionId' = generateSessionId(nextSession)
                    /\ nextSession' = nextSession + 1
               ELSE UNCHANGED <<sessionId, nextSession>>
            /\ sessions' = [s \in DOMAIN sessions \cup {sessionId'} |->
                              IF s \in DOMAIN sessions THEN sessions[s]
                              ELSE <<>>]
            /\ messages' = addMessage(messages, Notice("conversational"))
       ELSE /\ sessionId' = 0
            /\ UNCHANGED <<nextSession, sessions>>
            /\ messages' = addMessage(messages, Notice("simple"))
    /\ asks' = IF mode # currentMode THEN Abandon(asks) ELSE asks
    /\ UNCHANGED <<spoilerProtectionEnabled, maxChapter, questionInput,
                   askBtnDisabled, sliderVars, docViewVars, headerStatus,
                   docCalls, statusNet, registry, nextDocId, turns,
                   answeredLog, overlap, renderVars>>

\* setMode as it would be if leaving conversational mode kept the session
setModeSticky(mode) ==
    /\ mode \in {"simple", "conversational"}
    /\ Room(1)
    /\ currentMode' = mode
    /\ IF mode = "conversational"
       THEN /\ IF sessionId = 0
               THEN /\ nextSession < MaxSessions
                    /\ sessionId' = generateSessionId(nextSession)
                    /\ nextSession' = nextSession + 1
               ELSE UNCHANGED <<sessionId, nextSession>>
            /\ messages' = addMessage(messages, Notice("conversational"))
       ELSE /\ UNCHANGED <<sessionId, nextSession>>
            /\ messages' = addMessage(messages, Notice("simple"))
    /\ asks' = IF mode # currentMode THEN Abandon(asks) ELSE asks
    /\ UNCHANGED <<spoilerProtectionEnabled, maxChapter, questionInput,
                   askBtnDisabled, sliderVars, docViewVars, headerStatus,
                   docCalls, statusNet, serverVars, turns, answeredLog,
                   overlap, renderVars>>

\* setMode(mode)
setMode(mode) ==
    /\ mode \in {"simple", "conversational"}
    /\ Room(1)
    /\ currentMode' = mode
    /\ IF mode = "conversational"
       THEN /\ IF sessionId = 0
               THEN /\ nextSession < MaxSessions
                    /\ sessionId' = generateSessionId(nextSession)
                    /\ nextSession' = nextSession + 1
               ELSE UNCHANGED <<sessionId, nextSession>>
            /\ messages' = addMessage(messages, Notice("conversational"))
       ELSE /\ sessionId' = 0
            /\ UNCHANGED nextSession
            /\ messages' = addMessage(messages, Notice("simple"))
    /\ asks' = IF mode # currentMode THEN Abandon(asks) ELSE asks
    /\ UNCHANGED <<spoilerProtectionEnabled, maxChapter, questionInput,
                   askBtnDisabled, sliderVars, docViewVars, headerStatus,
                   docCalls, statusNet, serverVars, turns, answeredLog,
                   overlap, renderVars>>

\* resetConversation as it would be if it only cleared the pane and kept
\* the session
resetConversationKeep ==
    /\ IF currentMode = "conversational"
       THEN /\ UNCHANGED <<sessionId, nextSession>>
            /\ messages' = addMessage(<<>>, Notice("new_session"))
       ELSE /\ UNCHANGED <<sessionId, nextSession>>
            /\ messages' = addMessage(<<>>, Notice("cleared"))
    /\ asks' = Abandon(asks)
    /\ UNCHANGED <<currentMode, spoilerProtectionEnabled, maxChapter,
                   questionInput, askBtnDisabled, sliderVars, docViewVars,
                   headerStatus, docCalls, statusNet, serverVars, turns,
                   answeredLog, overlap, renderVars>>

\* resetConversation(), the user confirms
resetConversation ==
    /\ IF currentMode = "conversational"
       THEN /\ nextSession < MaxSessions
            /\ sessionId' = generateSessionId(nextSession)
            /\ nextSession' = nextSession + 1
            /\ messages' = addMessage(<<>>, Notice("new_session"))
       ELSE /\ UNCHANGED <<sessionId, nextSession>>
            /\ messages' = addMessage(<<>>, Notice("cleared"))
    /\ asks' = Abandon(asks)
    /\ UNCHANGED <<currentMode, spoilerProtectionEnabled, maxChapter,
                   questionInput, askBtnDisabled, sliderVars, docViewVars,
                   headerStatus, docCalls, statusNet, serverVars, turns,
                   answeredLog, overlap, renderVars>>

\* resetConversation(), the user declines the confirmation
resetDeclined == UNCHANGED vars

\* updateChapterDisplay: the ceiling read from the slider
updateChapterDisplay(value) == IF value = 0 THEN 1 ELSE value

\* toggleSpoilerProtection as it would be if the starting value were not
\* fitted to the maximum of the slider (372)
toggleSpoilerProtectionStart(checked) ==
    /\ checked \in BOOLEAN
    /\ spoilerProtectionEnabled' = checked
    /\ IF checked
       THEN LET currentVal == IF sliderValue <= 1
                              THEN StartChapter
                              ELSE sliderValue
            IN /\ sliderDisabled' = FALSE
               /\ sliderValue' = currentVal
               /\ maxChapter' = updateChapterDisplay(currentVal)
       ELSE /\ sliderDisabled' = TRUE
            /\ maxChapter' = 0
            /\ UNCHANGED sliderValue
    /\ UNCHANGED <<currentMode, sessionId, questionInput, askBtnDisabled,
                   messages, sliderMax, docViewVars, netVars, serverVars,
                   ghostVars, renderVars>>

\* toggleSpoilerProtection(), with the new state of the checkbox
toggleSpoilerProtection(checked) ==
    /\ checked \in BOOLEAN
    /\ spoilerProtectionEnabled' = checked
    /\ IF checked
       THEN LET maxVal == IF sliderMax = 0 THEN DefaultChapters ELSE sliderMax
                currentVal == IF sliderValue <= 1
                              THEN Min(StartChapter, maxVal)
                              ELSE sliderValue
            IN /\ sliderDisabled' = FALSE
               /\ sliderValue' = currentVal
               /\ maxChapter' = updateChapterDisplay(currentVal)
       ELSE /\ sliderDisabled' = TRUE
            /\ maxChapter' = 0
            /\ UNCHANGED sliderValue
    /\ UNCHANGED <<currentMode, sessionId, questionInput, askBtnDisabled,
                   messages, sliderMax, docViewVars, netVars, serverVars,
                   ghostVars, renderVars>>

\* the user drags the enabled slider: oninput calls updateChapterDisplay
slideChapter(v) ==
    /\ ~sliderDisabled
    /\ v \in SliderInputs
    /\ SliderMin <= v /\ v <= sliderMax
    /\ v # sliderValue
    /\ sliderValue' = v
    /\ maxChapter' = updateChapterDisplay(v)
    /\ UNCHANGED <<currentMode, sessionId, spoilerProtectionEnabled,
                   questionInput, askBtnDisabled, messages, sliderMax,
                   sliderDisabled, docViewVars, netVars, serverVars,
                   ghostVars, renderVars>>

\* triggerSliderUpdate as it would be without lines 522-524: the ceiling is
\* not refreshed from the clamped slider
triggerSliderUpdateNoRefresh(attr) ==
    LET chapters == IF attr = 0 THEN DefaultChapters ELSE attr
        value == IF sliderValue > chapters THEN chapters ELSE sliderValue
    IN [max |-> chapters, value |-> value, maxChapter |-> maxChapter]

\* triggerSliderUpdate(selectElement): the slider and the ceiling after the
\* selected option, whose data-chapters attribute is attr (0 = none)
triggerSliderUpdate(attr) ==
    LET chapters == IF attr = 0 THEN DefaultChapters ELSE attr
        value == IF sliderValue > chapters THEN chapters ELSE sliderValue
    IN [max |-> chapters,
        value |-> value,
        maxChapter |-> IF spoilerProtectionEnabled
                       THEN updateChapterDisplay(value)
                       ELSE maxChapter]

\* the user picks another option of #documentFilter: onchange
selectDocument(k) ==
    /\ k \in 1..Len(filterOptions)
    /\ k # selectedIndex
    /\ selectedIndex' = k
    /\ LET u == triggerSliderUpdate(filterOptions[k].chapters)
       IN /\ sliderMax' = u.max
          /\ sliderValue' = u.value
          /\ maxChapter' = u.maxChapter
    /\ UNCHANGED <<currentMode, sessionId, spoilerProtectionEnabled,
                   questionInput, askBtnDisabled, messages, sliderDisabled,
                   filterOptions, documentList, netVars, serverVars,
                   ghostVars, renderVars>>

\* the user types into the question box
typeQuestion(v) ==
    /\ v \in QuestionInputs
    /\ v # questionInput
    /\ questionInput' = v
    /\ UNCHANGED <<currentMode, sessionId, spoilerProtectionEnabled,
                   maxChapter, askBtnDisabled, messages, sliderVars,
                   docViewVars, netVars, serverVars, ghostVars, renderVars>>

\* ---------------------------------------------------------- askQuestion

FreeAsk == CHOOSE i \in 1..MaxAsks :
             /\ asks[i].state = "idle"
             /\ \A j \in 1..MaxAsks : asks[j].state = "idle" => i <= j

\* askQuestion as it would be without line 571: the conversational request
\* goes out without its session_id
BuildAskRequestNoSession(question) ==
    LET documentId == filterOptions[selectedIndex].value
        ceiling == IF spoilerProtectionEnabled /\ maxChapter # 0
                   THEN maxChapter ELSE 0
    IN IF currentMode = "conversational"
       THEN [IdleAsk EXCEPT !.state = "sent",
                            !.endpoint = "/conversation/ask",
                            !.document_id = documentId,
                            !.max_chapter = ceiling,
                            !.question = question]
       ELSE [IdleAsk EXCEPT !.state = "sent",
                            !.endpoint = "/chat/ask",
                            !.document_id = documentId,
                            !.max_chapter = ceiling,
                            !.max_chunks = SimpleMaxChunks,
                            !.question = question]

\* askQuestion as it would be without line 565: the request goes out
\* without the document_id of the selected document
BuildAskRequestNoDocument(question) ==
    LET ceiling == IF spoilerProtectionEnabled /\ maxChapter # 0
                   THEN maxChapter ELSE 0
    IN IF currentMode = "conversational"
       THEN [IdleAsk EXCEPT !.state = "sent",
                            !.endpoint = "/conversation/ask",
                            !.session_id = sessionId,
                            !.max_chapter = ceiling,
                            !.question = question]
       ELSE [IdleAsk EXCEPT !.state = "sent",
                            !.endpoint = "/chat/ask",
                            !.max_chapter = ceiling,
                            !.max_chunks = SimpleMaxChunks,
                            !.question = question]

\* askQuestion as it would be with the branches of line 570 swapped
BuildAskRequestSwapped(question) ==
    LET documentId == filterOptions[selectedIndex].value
        ceiling == IF spoilerProtectionEnabled /\ maxChapter # 0
                   THEN maxChapter ELSE 0
    IN IF currentMode # "conversational"
       THEN [IdleAsk EXCEPT !.state = "sent",
                            !.endpoint = "/conversation/ask",
                            !.session_id = sessionId,
                            !.document_id = documentId,
                            !.max_chapter = ceiling,
                            !.question = question]
       ELSE [IdleAsk EXCEPT !.state = "sent",
                            !.endpoint = "/chat/ask",
                            !.document_id = documentId,
                            !.max_chapter = ceiling,
                            !.max_chunks = SimpleMaxChunks,
                            !.question = question]

\* askQuestion, lines 559-577: the request built for a question
BuildAskRequest(question) ==
    LET documentId == filterOptions[selectedIndex].value
        ceiling == IF spoilerProtectionEnabled /\ maxChapter # 0
                   THEN maxChapter ELSE 0
    IN IF currentMode = "conversational"
       THEN [IdleAsk EXCEPT !.state = "sent",
                            !.endpoint = "/conversation/ask",
                            !.session_id = sessionId,
                            !.document_id = documentId,
                            !.max_chapter = ceiling,
                            !.question = question]
       ELSE [IdleAsk EXCEPT !.state = "sent",
                            !.endpoint = "/chat/ask",
                            !.document_id = documentId,
                            !.max_chapter = ceiling,
                            !.max_chunks = SimpleMaxChunks,
                            !.question = question]

\* askQuestion() up to the await of fetch, for a question that is not blank
askQuestion ==
    LET question == Trim(questionInput)
        req == BuildAskRequest(question)
    IN /\ question # <<>>
       /\ turns < MaxTurns
       /\ \E i \in 1..MaxAsks : asks[i].state = "idle"
       /\ Room(2)
       /\ questionInput' = <<>>
       /\ messages' = addMessage(messages,
                                 Msg("user", "question", question, 0, FALSE))
       /\ askBtnDisabled' = TRUE
       /\ asks' = [asks EXCEPT ![FreeAsk] =
                      [req EXCEPT !.mode = currentMode,
                                  !.conversation = sessionId,
                                  !.selected =
                                      filterOptions[selectedIndex].value]]
       /\ turns' = turns + 1
       /\ overlap' = IF sessionId # 0
                        /\ \E j \in AsksInFlight :
                              asks[j].conversation = sessionId
                     THEN overlap \cup {sessionId}
                     ELSE overlap
       /\ UNCHANGED <<currentMode, sessionId, spoilerProtectionEnabled,
                      maxChapter, sliderVars, docViewVars, headerStatus,
                      docCalls, statusNet, serverVars, nextSession,
                      answeredLog, renderVars>>

\* askQuestion() with a blank question box: if (!question) return
askBlank ==
    /\ Trim(questionInput) = <<>>
    /\ UNCHANGED vars

\* the try block as it would be with the banner built from the page's own
\* maxChapter instead of result.max_chapter
AskTryOwnCeiling(call) ==
    IF call.shape = "nonjson"
    THEN [appended |-> <<>>, thrown |-> TRUE]
    ELSE IF call.shape = "error"
    THEN [appended |-> <<Msg("assistant", "error", <<"Error">>, 0,
                             call.abandoned)>>,
          thrown |-> FALSE]
    ELSE IF call.shape = "detail"
    THEN [appended |-> <<>>, thrown |-> TRUE]
    ELSE [appended |-> <<Msg("assistant", "answer", call.answer,
                             IF call.spoiler_filter_active
                             THEN maxChapter ELSE 0,
                             call.abandoned)>>,
          thrown |-> FALSE]

\* lines 585-596, the try block after the response arrived: the messages it
\* appends and whether it throws
AskTry(call) ==
    IF call.shape = "nonjson"
    THEN [appended |-> <<>>, thrown |-> TRUE]        \* response.json() rejects
    ELSE IF call.shape = "error"
    THEN [appended |-> <<Msg("assistant", "error", <<"Error">>, 0,
                             call.abandoned)>>,
          thrown |-> FALSE]
    ELSE IF call.shape = "detail"
    THEN [appended |-> <<>>, thrown |-> TRUE]        \* undefined.replace(...)
    ELSE [appended |-> <<Msg("assistant", "answer", call.answer,
                             IF call.spoiler_filter_active
                             THEN call.echo ELSE 0,
                             call.abandoned)>>,
          thrown |-> FALSE]

\* the catch block as it would be if it only logged the error
AskCatchSilent(call) == <<>>

\* lines 597-598, the catch block
AskCatch(call) ==
    <<Msg("assistant", "error", <<"Error">>, 0, call.abandoned)>>

\* the answered pair a finished call adds to the caller's record
LogAnswered(log, call) ==
    IF call.state = "served" /\ call.shape = "answer" /\ call.conversation # 0
    THEN [log EXCEPT ![call.conversation] =
              Append(@, <<call.question, call.answer>>)]
    ELSE log

\* askQuestion() from the arrival of the response to the end
askDeliver(i) ==
    /\ i \in 1..MaxAsks
    /\ asks[i].state = "served"
    /\ LET t == AskTry(asks[i])
       IN messages' = messages \o t.appended
                      \o (IF t.thrown THEN AskCatch(asks[i]) ELSE <<>>)
    /\ askBtnDisabled' = FALSE
    /\ asks' = [asks EXCEPT ![i] = IdleAsk]
    /\ answeredLog' = LogAnswered(answeredLog, asks[i])
    /\ UNCHANGED <<currentMode, sessionId, spoilerProtectionEnabled,
                   maxChapter, questionInput, sliderVars, docViewVars,
                   headerStatus, docCalls, statusNet, serverVars,
                   nextSession, turns, overlap, renderVars>>

\* askQuestion() when fetch rejects: the request or its response is lost
askFetchFail(i) ==
    /\ i \in 1..MaxAsks
    /\ asks[i].state \in {"sent", "served"}
    /\ messages' = messages \o AskCatch(asks[i])
    /\ askBtnDisabled' = FALSE
    /\ asks' = [asks EXCEPT ![i] = IdleAsk]
    /\ answeredLog' = LogAnswered(answeredLog, asks[i])
    /\ UNCHANGED <<currentMode, sessionId, spoilerProtectionEnabled,
                   maxChapter, questionInput, sliderVars, docViewVars,
                   headerStatus, docCalls, statusNet, serverVars,
                   nextSession, turns, overlap, renderVars>>

\* ------------------------------------------- the service answers an ask

\* 4.3 the session history after a successful answer
AppendTurn(store, sid, question, answer) ==
    IF sid = 0 THEN store
    ELSE [s \in DOMAIN store \cup {sid} |->
            IF s = sid THEN Append(History(store, sid), <<question, answer>>)
            ELSE store[s]]

\* 4.3 the conversational context handed to generation
ContextOf(store, sid) ==
    IF sid = 0 THEN <<>> ELSE LastN(History(store, sid), ContextWindow)

\* 4.3 / 7: a request whose scope does not resolve is answered by a
\* structured NotFound error
ServerAskNotFound(i) ==
    /\ i \in 1..MaxAsks
    /\ asks[i].state = "sent"
    /\ ResolveScope(registry, asks[i].document_id, asks[i].max_chapter,
                    TRUE).status = "NotFound"
    /\ \E shape \in {"error", "detail"} :
         asks' = [asks EXCEPT ![i].state = "served",
                              ![i].shape = shape,
                              ![i].errClass = "NotFound"]
    /\ UNCHANGED <<clientVars, sliderVars, docViewVars, headerStatus,
                   docCalls, statusNet, serverVars, ghostVars, renderVars>>

\* the failing dependency as it would be if it were called whatever the
\* scope matched
ServerAskUpstreamAlways(i) ==
    /\ i \in 1..MaxAsks
    /\ asks[i].state = "sent"
    /\ \E incl \in BOOLEAN :
         LET scope == ResolveScope(registry, asks[i].document_id,
                                   asks[i].max_chapter, incl)
         IN /\ scope.status = "ok"
            /\ \E shape \in {"error", "detail", "nonjson"} :
                 asks' = [asks EXCEPT
                            ![i].state = "served",
                            ![i].matched =
                                (EligibleChunks(registry, scope) # {}),
                            ![i].shape = shape,
                            ![i].errClass = "Upstream"]
    /\ UNCHANGED <<clientVars, sliderVars, docViewVars, headerStatus,
                   docCalls, statusNet, serverVars, ghostVars, renderVars>>

\* 7: the generation dependency fails; reported, nothing recorded.  It is
\* called only for a scope that resolved and matched some chunk (4.3)
ServerAskUpstream(i) ==
    /\ i \in 1..MaxAsks
    /\ asks[i].state = "sent"
    /\ \E incl \in BOOLEAN :
         LET scope == ResolveScope(registry, asks[i].document_id,
                                   asks[i].max_chapter, incl)
         IN /\ scope.status = "ok"
            /\ EligibleChunks(registry, scope) # {}
            /\ \E shape \in {"error", "detail", "nonjson"} :
                 asks' = [asks EXCEPT
                            ![i].state = "served",
                            ![i].matched =
                                (EligibleChunks(registry, scope) # {}),
                            ![i].shape = shape,
                            ![i].errClass = "Upstream"]
    /\ UNCHANGED <<clientVars, sliderVars, docViewVars, headerStatus,
                   docCalls, statusNet, serverVars, ghostVars, renderVars>>

NoContent == <<"no_content">>

\* 4.3 generation: the answer is made from the question, the retrieved
\* chunks and the conversational context
GenerateAnswer(question, S, context) ==
    IF S = {} THEN NoContent
    ELSE <<"re">> \o question \o <<"after", Len(context)>>

\* 4.3 answer(question, scope, session_id?) for a request in the given
\* state: retrieval, generation, the history
ServerAnswerFrom(i, from) ==
    /\ i \in 1..MaxAsks
    /\ asks[i].state = from
    /\ \E incl \in BOOLEAN :
         LET req == asks[i]
             scope == ResolveScope(registry, req.document_id,
                                   req.max_chapter, incl)
             k == IF req.max_chunks = 0 THEN SimpleMaxChunks
                  ELSE req.max_chunks
         IN /\ scope.status = "ok"
            /\ \E S \in Retrieve(EligibleChunks(registry, scope), k) :
               LET a == GenerateAnswer(req.question, S,
                                       History(sessions, req.session_id))
               IN
                 /\ asks' = [asks EXCEPT
                       ![i].state = "served",
                       ![i].matched =
                           (EligibleChunks(registry, scope) # {}),
                       ![i].shape = "answer",
                       ![i].answer = a,
                       ![i].sources = S,
                       ![i].spoiler_filter_active = (scope.ceiling # 0),
                       ![i].echo = scope.ceiling,
                       ![i].context = ContextOf(sessions, req.session_id)]
                 /\ sessions' = AppendTurn(sessions, req.session_id,
                                           req.question, a)
    /\ UNCHANGED <<clientVars, sliderVars, docViewVars, headerStatus,
                   docCalls, statusNet, registry, nextDocId, ghostVars,
                   renderVars>>

\* 4.3 answer(question, scope, session_id?), resolution and retrieval in
\* one step
ServerAnswer(i) == ServerAnswerFrom(i, "sent")

\* ------------------------------------------------- document management

FreeDocCall == CHOOSE i \in 1..MaxDocCalls :
                 /\ docCalls[i].state = "idle"
                 /\ \A j \in 1..MaxDocCalls :
                       docCalls[j].state = "idle" => i <= j

\* loadDocuments() up to the await of fetch
ListRequest == [IdleDocCall EXCEPT !.state = "sent", !.kind = "list"]

\* loadStatus() up to the await of fetch
loadStatus(net) == net \cup {"sent"}

\* loadDocuments(), lines 484-489: the options of the filter dropdown
FilterOptionsOf(docs) ==
    <<[value |-> 0, chapters |-> DefaultChapters]>>
    \o [k \in 1..Len(docs) |->
          [value |-> docs[k].id,
           chapters |-> IF docs[k].total_chapters = 0
                        THEN DefaultChapters
                        ELSE docs[k].total_chapters]]

\* the dropdown with the single option that carries no data-chapters
EmptyFilter == <<[value |-> 0, chapters |-> 0]>>

\* loadDocuments() from the arrival of the list to the end
loadDocumentsResponse(i) ==
    /\ i \in 1..MaxDocCalls
    /\ docCalls[i].state = "served"
    /\ docCalls[i].kind = "list"
    /\ LET docs == docCalls[i].docs
       IN IF Len(docs) = 0
          THEN /\ documentList' = <<>>
               /\ filterOptions' = EmptyFilter
               /\ selectedIndex' = 1
               /\ UNCHANGED <<sliderMax, sliderValue, maxChapter>>
          ELSE /\ documentList' = docs
               /\ filterOptions' = FilterOptionsOf(docs)
               /\ selectedIndex' = 1
               /\ LET u == triggerSliderUpdate(FilterOptionsOf(docs)[1].chapters)
                  IN /\ sliderMax' = u.max
                     /\ sliderValue' = u.value
                     /\ maxChapter' = u.maxChapter
    /\ docCalls' = [docCalls EXCEPT ![i] = IdleDocCall]
    /\ UNCHANGED <<currentMode, sessionId, spoilerProtectionEnabled,
                   questionInput, askBtnDisabled, messages, sliderDisabled,
                   headerStatus, asks, statusNet, serverVars, ghostVars,
                   renderVars>>

\* a fetch of loadDocuments, deleteDocument or uploadDocument rejects:
\* console.error or alert, nothing else
docCallFails(i) ==
    /\ i \in 1..MaxDocCalls
    /\ docCalls[i].state \in {"sent", "served"}
    /\ docCalls' = [docCalls EXCEPT ![i] = IdleDocCall]
    /\ UNCHANGED <<clientVars, sliderVars, docViewVars, headerStatus, asks,
                   statusNet, serverVars, ghostVars, renderVars>>

\* deleteDocument(id), confirmed, up to the await of fetch; the id is that
\* of a Delete button of the document list
deleteDocument(id) ==
    /\ \E k \in 1..Len(documentList) : documentList[k].id = id
    /\ \E i \in 1..MaxDocCalls : docCalls[i].state = "idle"
    /\ Room(1)
    /\ docCalls' = [docCalls EXCEPT ![FreeDocCall] =
                      [IdleDocCall EXCEPT !.state = "sent",
                                          !.kind = "delete", !.id = id]]
    /\ UNCHANGED <<clientVars, sliderVars, docViewVars, headerStatus, asks,
                   statusNet, serverVars, ghostVars, renderVars>>

\* deleteDocument(id) from the arrival of the response to the end
deleteResponse(i) ==
    /\ i \in 1..MaxDocCalls
    /\ docCalls[i].state = "served"
    /\ docCalls[i].kind = "delete"
    /\ IF docCalls[i].ok
       THEN /\ docCalls' = [docCalls EXCEPT ![i] = ListRequest]
            /\ statusNet' = loadStatus(statusNet)
            /\ messages' = addMessage(messages, Notice("deleted"))
       ELSE /\ docCalls' = [docCalls EXCEPT ![i] = IdleDocCall]
            /\ UNCHANGED <<statusNet, messages>>
    /\ UNCHANGED <<currentMode, sessionId, spoilerProtectionEnabled,
                   maxChapter, questionInput, askBtnDisabled, sliderVars,
                   docViewVars, headerStatus, asks, serverVars, ghostVars,
                   renderVars>>

\* uploadDocument() with a file chosen, up to the first await of fetch
uploadDocument ==
    /\ \E i \in 1..MaxDocCalls : docCalls[i].state = "idle"
    /\ Room(1)
    /\ nextDocId + Cardinality({ i \in DocCallsInFlight :
                                   docCalls[i].kind = "upload" }) <= MaxDocs
    /\ docCalls' = [docCalls EXCEPT ![FreeDocCall] =
                      [IdleDocCall EXCEPT !.state = "sent",
                                          !.kind = "upload"]]
    /\ UNCHANGED <<clientVars, sliderVars, docViewVars, headerStatus, asks,
                   statusNet, serverVars, ghostVars, renderVars>>

\* uploadDocument() from the upload response to the await of the
\* processing request
uploadResponse(i) ==
    /\ i \in 1..MaxDocCalls
    /\ docCalls[i].state = "served"
    /\ docCalls[i].kind = "upload"
    /\ docCalls' = [docCalls EXCEPT ![i] =
                      IF docCalls[i].ok
                      THEN [IdleDocCall EXCEPT !.state = "sent",
                                               !.kind = "process",
                                               !.id = docCalls[i].id]
                      ELSE IdleDocCall]
    /\ UNCHANGED <<clientVars, sliderVars, docViewVars, headerStatus, asks,
                   statusNet, serverVars, ghostVars, renderVars>>

\* uploadDocument() from the processing response to the end
processResponse(i) ==
    /\ i \in 1..MaxDocCalls
    /\ docCalls[i].state = "served"
    /\ docCalls[i].kind = "process"
    /\ IF docCalls[i].ok
       THEN /\ messages' = addMessage(messages, Notice("uploaded"))
            /\ docCalls' = [docCalls EXCEPT ![i] = ListRequest]
            /\ statusNet' = loadStatus(statusNet)
       ELSE /\ messages' = addMessage(messages, Notice("processing_failed"))
            /\ docCalls' = [docCalls EXCEPT ![i] = IdleDocCall]
            /\ UNCHANGED statusNet
    /\ UNCHANGED <<currentMode, sessionId, spoilerProtectionEnabled,
                   maxChapter, questionInput, askBtnDisabled, sliderVars,
                   docViewVars, headerStatus, asks, serverVars, ghostVars,
                   renderVars>>

\* ------------------------------------- the service, document registry

\* GET /documents/list
ServerListDocuments(i) ==
    /\ i \in 1..MaxDocCalls
    /\ docCalls[i].state = "sent"
    /\ docCalls[i].kind = "list"
    /\ docCalls' = [docCalls EXCEPT ![i].state = "served",
                                    ![i].ok = TRUE,
                                    ![i].docs = ServerList(registry)]
    /\ UNCHANGED <<clientVars, sliderVars, docViewVars, headerStatus, asks,
                   statusNet, serverVars, ghostVars, renderVars>>

\* 4.1 delete(id): the document and its chunks go at once
RemoveDocument(reg, id) == [d \in DOMAIN reg \ {id} |-> reg[d]]

\* DELETE /documents/{id}: 200, or 404 for an id that is not registered
ServerDelete(i) ==
    /\ i \in 1..MaxDocCalls
    /\ docCalls[i].state = "sent"
    /\ docCalls[i].kind = "delete"
    /\ IF docCalls[i].id \in DOMAIN registry
       THEN /\ registry' = RemoveDocument(registry, docCalls[i].id)
            /\ docCalls' = [docCalls EXCEPT ![i].state = "served",
                                            ![i].ok = TRUE]
       ELSE /\ UNCHANGED registry
            /\ docCalls' = [docCalls EXCEPT ![i].state = "served",
                                            ![i].ok = FALSE]
    /\ UNCHANGED <<clientVars, sliderVars, docViewVars, headerStatus, asks,
                   statusNet, nextDocId, sessions, ghostVars, renderVars>>

\* -------------------- 5: delete and answer resolution, step by step

\* the requests that hold shared access to document d: their scope is
\* resolved and their retrieval is under way
ReadersOf(d) ==
    { i \in AsksInFlight :
        asks[i].state = "resolving" /\ asks[i].document_id \in {0, d} }

\* a delete holds exclusive access to document d
Deleting(d) ==
    \E j \in DocCallsInFlight :
      docCalls[j].state = "deleting" /\ docCalls[j].id = d

\* delete(id) as it would be if it did not wait for the readers of the
\* document
ServerDeleteBeginNoWait(j) ==
    /\ j \in 1..MaxDocCalls
    /\ docCalls[j].state = "sent"
    /\ docCalls[j].kind = "delete"
    /\ IF docCalls[j].id \in DOMAIN registry
       THEN /\ ~Deleting(docCalls[j].id)
            /\ docCalls' = [docCalls EXCEPT ![j].state = "deleting"]
       ELSE docCalls' = [docCalls EXCEPT ![j].state = "served",
                                         ![j].ok = FALSE]
    /\ UNCHANGED <<clientVars, sliderVars, docViewVars, headerStatus, asks,
                   statusNet, serverVars, ghostVars, renderVars>>

\* 5 delete(id) takes exclusive access to the document: it waits until no
\* request reads it; an id that is not registered is refused at once
ServerDeleteBegin(j) ==
    /\ j \in 1..MaxDocCalls
    /\ docCalls[j].state = "sent"
    /\ docCalls[j].kind = "delete"
    /\ IF docCalls[j].id \in DOMAIN registry
       THEN /\ ReadersOf(docCalls[j].id) = {}
            /\ ~Deleting(docCalls[j].id)
            /\ docCalls' = [docCalls EXCEPT ![j].state = "deleting"]
       ELSE docCalls' = [docCalls EXCEPT ![j].state = "served",
                                         ![j].ok = FALSE]
    /\ UNCHANGED <<clientVars, sliderVars, docViewVars, headerStatus, asks,
                   statusNet, serverVars, ghostVars, renderVars>>

\* the delete removes one chunk of the document
ServerDeleteChunk(j) ==
    /\ j \in 1..MaxDocCalls
    /\ docCalls[j].state = "deleting"
    /\ \E c \in registry[docCalls[j].id].chunks :
         registry' = [registry EXCEPT ![docCalls[j].id].chunks = @ \ {c}]
    /\ UNCHANGED <<clientVars, sliderVars, docViewVars, headerStatus, asks,
                   docCalls, statusNet, nextDocId, sessions, ghostVars,
                   renderVars>>

\* no chunk is left: the delete removes the document and gives up its
\* access
ServerDeleteEnd(j) ==
    /\ j \in 1..MaxDocCalls
    /\ docCalls[j].state = "deleting"
    /\ registry[docCalls[j].id].chunks = {}
    /\ registry' = RemoveDocument(registry, docCalls[j].id)
    /\ docCalls' = [docCalls EXCEPT ![j].state = "served", ![j].ok = TRUE]
    /\ UNCHANGED <<clientVars, sliderVars, docViewVars, headerStatus, asks,
                   statusNet, nextDocId, sessions, ghostVars, renderVars>>

\* 5 answer resolution takes shared access to the documents of its scope:
\* it waits while one of them is being deleted
ServerResolve(i) ==
    /\ i \in 1..MaxAsks
    /\ asks[i].state = "sent"
    /\ LET scope == ResolveScope(registry, asks[i].document_id,
                                 asks[i].max_chapter, FALSE)
       IN /\ scope.status = "ok"
          /\ \A d \in scope.docs : ~Deleting(d)
    /\ asks' = [asks EXCEPT ![i].state = "resolving"]
    /\ UNCHANGED <<clientVars, sliderVars, docViewVars, headerStatus,
                   docCalls, statusNet, serverVars, ghostVars, renderVars>>

\* the resolved request is answered and gives up its access
ServerAnswerResolved(i) == ServerAnswerFrom(i, "resolving")

\* POST /documents/upload-file: the document is registered under a new id
ServerUpload(i) ==
    /\ i \in 1..MaxDocCalls
    /\ docCalls[i].state = "sent"
    /\ docCalls[i].kind = "upload"
    /\ nextDocId <= MaxDocs
    /\ registry' = [d \in DOMAIN registry \cup {nextDocId} |->
                      IF d = nextDocId THEN NewDocument ELSE registry[d]]
    /\ nextDocId' = nextDocId + 1
    /\ docCalls' = [docCalls EXCEPT ![i].state = "served",
                                    ![i].ok = TRUE,
                                    ![i].id = nextDocId]
    /\ UNCHANGED <<clientVars, sliderVars, docViewVars, headerStatus, asks,
                   statusNet, sessions, ghostVars, renderVars>>

\* an upload or a processing request is refused
ServerRefuses(i) ==
    /\ i \in 1..MaxDocCalls
    /\ docCalls[i].state = "sent"
    /\ docCalls[i].kind \in {"upload", "process"}
    /\ docCalls' = [docCalls EXCEPT ![i].state = "served", ![i].ok = FALSE]
    /\ UNCHANGED <<clientVars, sliderVars, docViewVars, headerStatus, asks,
                   statusNet, serverVars, ghostVars, renderVars>>

\* POST /documents/{id}/process: chunks and chapter count are populated
ServerProcess(i) ==
    /\ i \in 1..MaxDocCalls
    /\ docCalls[i].state = "sent"
    /\ docCalls[i].kind = "process"
    /\ docCalls[i].id \in DOMAIN registry
    /\ \E shape \in DocShapes :
         registry' = [registry EXCEPT ![docCalls[i].id] = shape]
    /\ docCalls' = [docCalls EXCEPT ![i].state = "served", ![i].ok = TRUE]
    /\ UNCHANGED <<clientVars, sliderVars, docViewVars, headerStatus, asks,
                   statusNet, nextDocId, sessions, ghostVars, renderVars>>

\* ----------------------------------------------------------- loadStatus

\* setInterval(loadStatus, 30000)
statusTimer ==
    /\ "sent" \notin statusNet
    /\ statusNet' = loadStatus(statusNet)
    /\ UNCHANGED <<clientVars, sliderVars, docViewVars, headerStatus, asks,
                   docCalls, serverVars, ghostVars, renderVars>>

\* GET /chat/status
ServerStatusReport ==
    /\ "sent" \in statusNet
    /\ \E keep \in BOOLEAN :
         statusNet' = (IF keep THEN statusNet ELSE statusNet \ {"sent"})
                      \cup {ServerStatus(registry).status}
    /\ UNCHANGED <<clientVars, sliderVars, docViewVars, headerStatus, asks,
                   docCalls, serverVars, ghostVars, renderVars>>

\* loadStatus() from the arrival of the response to the end; a rejected
\* fetch shows the lost connection
loadStatusResponse(r) ==
    /\ r \in statusNet
    /\ headerStatus' = IF r = "sent" THEN "lost" ELSE r
    /\ \E keep \in BOOLEAN :
         statusNet' = IF keep THEN statusNet ELSE statusNet \ {r}
    /\ UNCHANGED <<clientVars, sliderVars, docViewVars, asks, docCalls,
                   serverVars, ghostVars, renderVars>>

\* =====================================================================
\* The system
\* =====================================================================

\* ---------------------------------------------------------------------
\* addMessage, the sources of an answer (614-627; 240-258 in the revision
\* that also shows the chunk numbers). The chat specifications keep the
\* cited chunks as a set; the line of sources is rendered here from the
\* list of the response, in its order.

\* titles; "" stands for an absent (or empty) chapter_title
ChapterTitles == {"", "Prologue", "2"}
DocumentTitles == {"Dune", "1984"}
ChunkIndexes == {7, 3}

SourceInputs ==
    [chapter_title : ChapterTitles, document_title : DocumentTitles,
     chunk_index : ChunkIndexes]

SourceLists == UNION { [1..n -> SourceInputs] : n \in 1..MaxSources }

\* property names that are array indexes ("2", "1984"), with their values:
\* an object enumerates these first, in ascending numeric order, and its
\* other properties after them in the order of their creation
ArrayIndex == ("2" :> 2) @@ ("1984" :> 1984)

IsArrayIndex(key) == key \in DOMAIN ArrayIndex

\* source.chapter_title || source.document_title
GroupKey(source) ==
    IF source.chapter_title # "" THEN source.chapter_title
    ELSE source.document_title

\* the place of property key among the properties of acc, 0 when absent
Position(acc, key) ==
    IF \E p \in 1..Len(acc) : acc[p].key = key
    THEN CHOOSE p \in 1..Len(acc) : acc[p].key = key
    ELSE 0

\* Array.prototype.includes
Includes(list, x) == \E p \in 1..Len(list) : list[p] = x

\* the callback of sources.reduce (615-619)
ReduceSource(acc, source) ==
    LET key == GroupKey(source)
        created == IF Position(acc, key) = 0
                   THEN Append(acc, [key |-> key, chunks |-> <<>>])
                   ELSE acc
        p == Position(created, key)
    IN IF Includes(created[p].chunks, source.chunk_index) THEN created
       ELSE [created EXCEPT ![p].chunks = Append(@, source.chunk_index)]

\* Object.keys(sourceMap) (621)
ObjectKeys(acc) ==
    LET keys == [p \in 1..Len(acc) |-> acc[p].key]
        indexes == SelectSeq(keys, IsArrayIndex)
        names == SelectSeq(keys, LAMBDA k : ~IsArrayIndex(k))
    IN SortSeq(indexes, LAMBDA a, b : ArrayIndex[a] < ArrayIndex[b])
       \o names

\* sourceMap[title].sort((a, b) => a - b) (254)
SortChunks(list) == SortSeq(list, LAMBDA a, b : a < b)

otherVars == <<clientVars, sliderVars, docViewVars, netVars, serverVars,
               ghostVars>>

\* one step of sources.reduce
reduceSource ==
    /\ reduced < Len(sourcesArg)
    /\ sourceMap' = ReduceSource(sourceMap, sourcesArg[reduced + 1])
    /\ reduced' = reduced + 1
    /\ UNCHANGED <<sourcesArg, sourceHtml, otherVars>>

\* the line of sources: the titles only (621-623)
joinSources ==
    /\ sourcesArg # <<>>
    /\ reduced = Len(sourcesArg)
    /\ sourceHtml = <<>>
    /\ LET keys == ObjectKeys(sourceMap)
       IN sourceHtml' = [p \in 1..Len(keys) |->
                           [title |-> keys[p], chunks |-> <<>>]]
    /\ UNCHANGED <<sourcesArg, reduced, sourceMap, otherVars>>

\* the line of sources: each title with its chunk numbers in ascending
\* order (253-256)
joinSourcesChunks ==
    /\ sourcesArg # <<>>
    /\ reduced = Len(sourcesArg)
    /\ sourceHtml = <<>>
    /\ LET keys == ObjectKeys(sourceMap)
       IN sourceHtml' =
            [p \in 1..Len(keys) |->
               [title |-> keys[p],
                chunks |->
                  SortChunks(sourceMap[Position(sourceMap, keys[p])].chunks)]]
    /\ UNCHANGED <<sourcesArg, reduced, sourceMap, otherVars>>

\* the page after the script ran: simple mode, no session, spoiler
\* protection off, loadDocuments() and loadStatus() under way (665-666);
\* the service holds one of the registries regs
PageLoaded(regs) ==
    /\ currentMode = "simple"
    /\ sessionId = 0
    /\ spoilerProtectionEnabled = FALSE
    /\ maxChapter = 0
    /\ questionInput = <<>>
    /\ askBtnDisabled = FALSE
    /\ messages = <<>>
    /\ sliderValue = SliderMin
    /\ sliderMax = DefaultChapters
    /\ sliderDisabled = TRUE
    /\ filterOptions = EmptyFilter
    /\ selectedIndex = 1
    /\ documentList = <<>>
    /\ headerStatus = "none"
    /\ asks = [i \in 1..MaxAsks |-> IdleAsk]
    /\ docCalls = [i \in 1..MaxDocCalls |->
                     IF i = 1 THEN ListRequest ELSE IdleDocCall]
    /\ statusNet = {"sent"}
    /\ registry \in regs
    /\ nextDocId = Cardinality(DOMAIN registry) + 1
    /\ sessions = [s \in {} |-> <<>>]
    /\ nextSession = 0
    /\ turns = 0
    /\ answeredLog = [s \in SessionIds |-> <<>>]
    /\ overlap = {}

\* no answer is being rendered
NoSources ==
    /\ sourcesArg = <<>>
    /\ reduced = 0
    /\ sourceMap = <<>>
    /\ sourceHtml = <<>>

InitWith(regs) == PageLoaded(regs) /\ NoSources

Init == InitWith(Registries)

\* the conversation: modes, sessions, questions and their answers, with
\* one book in the registry, up to ChatAsksAtOnce calls in flight and up to
\* ChatSessionIds session ids
ChatNext ==
    \/ \E mode \in {"simple", "conversational"} :
         /\ (mode = "conversational" /\ sessionId = 0)
              => nextSession < ChatSessionIds
         /\ setMode(mode)
    \/ /\ currentMode = "conversational" => nextSession < ChatSessionIds
       /\ resetConversation
    \/ resetDeclined
    \/ \E v \in QuestionInputs : typeQuestion(v)
    \/ /\ Cardinality(AsksInFlight) < ChatAsksAtOnce
       /\ askQuestion
    \/ askBlank
    \/ \E i \in 1..MaxAsks : askDeliver(i)
    \/ \E i \in 1..MaxAsks : askFetchFail(i)
    \/ \E i \in 1..MaxAsks : ServerAskUpstream(i)
    \/ \E i \in 1..MaxAsks : ServerAnswer(i)

Spec == InitWith({OneBook}) /\ [][ChatNext]_vars

\* deleting documents, the listing, and one question scoped to the
\* selected document, with up to DocsCallsAtOnce calls in flight
DocsNext ==
    \/ \E id \in DocIds :
         /\ Cardinality(DocCallsInFlight) < DocsCallsAtOnce
         /\ deleteDocument(id)
    \/ \E i \in 1..MaxDocCalls : deleteResponse(i)
    \/ \E i \in 1..MaxDocCalls : loadDocumentsResponse(i)
    \/ \E i \in 1..MaxDocCalls : docCallFails(i)
    \/ \E i \in 1..MaxDocCalls : ServerListDocuments(i)
    \/ \E i \in 1..MaxDocCalls : ServerDelete(i)
    \/ \E k \in 1..Len(filterOptions) : selectDocument(k)
    \/ typeQuestion(<<" ", "a", " ">>)
    \/ (turns = 0 /\ askQuestion)
    \/ \E i \in 1..MaxAsks : askDeliver(i)
    \/ \E i \in 1..MaxAsks : ServerAskNotFound(i)
    \/ \E i \in 1..MaxAsks : ServerAskUpstream(i)
    \/ \E i \in 1..MaxAsks : ServerAnswer(i)

SpecDocs == InitWith(Shelves) /\ [][DocsNext]_vars

\* spoiler protection: the toggle, the slider, the selected document and
\* one question under a chapter ceiling
SpoilerNext ==
    \/ \E checked \in BOOLEAN : toggleSpoilerProtection(checked)
    \/ \E v \in SliderInputs : slideChapter(v)
    \/ \E k \in 1..Len(filterOptions) : selectDocument(k)
    \/ \E i \in 1..MaxDocCalls : ServerListDocuments(i)
    \/ \E i \in 1..MaxDocCalls : loadDocumentsResponse(i)
    \/ typeQuestion(<<" ", "a", " ">>)
    \/ (turns = 0 /\ askQuestion)
    \/ \E i \in 1..MaxAsks : askDeliver(i)
    \/ \E i \in 1..MaxAsks : ServerAskUpstream(i)
    \/ \E i \in 1..MaxAsks : ServerAnswer(i)

SpecSpoiler == Init /\ [][SpoilerNext]_vars

\* uploading documents
UploadNext ==
    \/ uploadDocument
    \/ \E i \in 1..MaxDocCalls : uploadResponse(i)
    \/ \E i \in 1..MaxDocCalls : processResponse(i)
    \/ \E i \in 1..MaxDocCalls : ServerUpload(i)
    \/ \E i \in 1..MaxDocCalls : ServerRefuses(i)
    \/ \E i \in 1..MaxDocCalls : ServerProcess(i)

\* the status badge
StatusNext ==
    \/ statusTimer
    \/ ServerStatusReport
    \/ \E r \in {"sent", "ready", "not_ready"} : loadStatusResponse(r)

\* calls of askQuestion that overlap: askQuestion() is called again, from
\* whatever calls it, before the response to an earlier call has arrived
OverlapNext ==
    \/ \E mode \in {"simple", "conversational"} : setMode(mode)
    \/ typeQuestion(<<" ", "a", " ">>)
    \/ askQuestion
    \/ \E i \in 1..MaxAsks : ServerAnswer(i)
    \/ \E i \in 1..MaxAsks : askDeliver(i)

SpecOverlap == InitWith({OneBook}) /\ [][OverlapNext]_vars

\* a delete and one question about the selected document, the service
\* taken step by step, with up to DocsCallsAtOnce calls in flight
DeleteNext ==
    \/ \E i \in 1..MaxDocCalls : ServerListDocuments(i)
    \/ \E i \in 1..MaxDocCalls : loadDocumentsResponse(i)
    \/ \E k \in 1..Len(filterOptions) : selectDocument(k)
    \/ typeQuestion(<<" ", "a", " ">>)
    \/ (turns = 0 /\ askQuestion)
    \/ \E id \in DocIds :
         /\ Cardinality(DocCallsInFlight) < DocsCallsAtOnce
         /\ deleteDocument(id)
    \/ \E i \in 1..MaxDocCalls : deleteResponse(i)
    \/ \E j \in 1..MaxDocCalls : ServerDeleteBegin(j)
    \/ \E j \in 1..MaxDocCalls : ServerDeleteChunk(j)
    \/ \E j \in 1..MaxDocCalls : ServerDeleteEnd(j)
    \/ \E i \in 1..MaxAsks : ServerResolve(i)
    \/ \E i \in 1..MaxAsks : ServerAnswerResolved(i)
    \/ \E i \in 1..MaxAsks : ServerAskNotFound(i)
    \/ \E i \in 1..MaxAsks : askDeliver(i)

SpecDelete == InitWith(Shelves) /\ [][DeleteNext]_vars

\* =====================================================================
\* Properties
\* =====================================================================

\* the asks in flight that the caller issued under session id s
InFlightFor(s) == { i \in AsksInFlight : asks[i].conversation = s }

\* the asks in flight the service has answered successfully
Answered(i) == asks[i].state = "served" /\ asks[i].shape = "answer"

\* C1: for every session id used sequentially (never two asks in flight at
\* once), the history in the Session Store is exactly the sequence of the
\* answered (question, answer) pairs in completion order: it equals the
\* pairs of the finished calls, followed by the pair of the call that is
\* answered but not yet delivered; and the context of every answered call
\* is the window over all pairs answered before it, so the second of two
\* sequential calls has the first call's question and answer in its context.
Thm_C1 ==
    \A s \in SessionIds :
      s \notin overlap =>
        /\ \A i \in InFlightFor(s) :
             Answered(i) =>
               /\ History(sessions, s) =
                    Append(answeredLog[s], <<asks[i].question, asks[i].answer>>)
               /\ asks[i].context = LastN(answeredLog[s], ContextWindow)
               /\ answeredLog[s] # <<>> =>
                    answeredLog[s][Len(answeredLog[s])] \in Range(asks[i].context)
        /\ (\A i \in InFlightFor(s) : ~Answered(i)) =>
             History(sessions, s) = answeredLog[s]

\* two turns were answered one after the other on one session id, and the
\* store holds both
Wit_C1 ==
    \E s \in SessionIds :
      /\ s \notin overlap
      /\ InFlightFor(s) = {}
      /\ Len(answeredLog[s]) = 2
      /\ answeredLog[s][1] # answeredLog[s][2]
      /\ History(sessions, s) = answeredLog[s]

\* the step in which the service answers ask i
Serves(i) == asks[i].state = "sent" /\ asks'[i].state = "served"

\* the step in which askQuestion call i finishes
Finishes(i) == asks[i].state # "idle" /\ asks'[i].state = "idle"

LastMessage(list) == list[Len(list)]

\* C2, for every id and every request: a scope that names a document that
\* is not registered resolves to NotFound
UnknownIsNotFound ==
    \A d \in DocIds \ DOMAIN registry :
      \A mc \in CeilingInputs : \A incl \in BOOLEAN :
        /\ ResolveScope(registry, d, mc, incl).status = "NotFound"
        /\ EligibleChunks(registry, ResolveScope(registry, d, mc, incl)) = {}

\* C2, for the page: an ask for which a document was selected that is not
\* registered when the service answers it gets a NotFound error and no
\* sources
StaleScopeRefused ==
    \A i \in 1..MaxAsks :
      (Serves(i) /\ asks[i].selected # 0
                 /\ asks[i].selected \notin DOMAIN registry)
      => /\ asks'[i].errClass = "NotFound"
         /\ asks'[i].shape \in {"error", "detail"}
         /\ asks'[i].sources = {}

\* C2: an ask scoped to a document id that is not registered (never
\* existed, or deleted) is answered by a NotFound error, never by sources
\* and never by an answer over all documents; this holds for the asks the
\* page sends with the id of its dropdown after a successful delete.
Thm_C2 == []UnknownIsNotFound /\ [][StaleScopeRefused]_vars

\* after "Document deleted." the user asked about the deleted document,
\* still selected in the dropdown, and the service refused
Wit_C2 ==
    \E i \in 1..MaxAsks :
      /\ asks[i].state = "served"
      /\ asks[i].errClass = "NotFound"
      /\ asks[i].selected # 0
      /\ \E k \in 1..Len(messages) : \E l \in 1..Len(messages) :
           /\ k < l
           /\ messages[k] = Notice("deleted")
           /\ messages[l].role = "user"

\* the ceiling the design prescribes for a request, written out
ExpectedCeiling(reg, document_id, max_chapter) ==
    IF max_chapter = 0 THEN 0
    ELSE IF document_id = 0 THEN max_chapter
    ELSE IF reg[document_id].total_chapters = 0 THEN 0
    ELSE IF max_chapter > reg[document_id].total_chapters
         THEN reg[document_id].total_chapters
         ELSE max_chapter

\* C3, service: the ceiling of a single-document scope lies in [1, N] and a
\* request above N resolves as the request N does
CeilingClamped ==
    \A d \in DOMAIN registry :
      LET N == registry[d].total_chapters
      IN N >= 1 =>
           \A mc \in CeilingInputs \ {0} : \A incl \in BOOLEAN :
             LET scope == ResolveScope(registry, d, mc, incl)
                 atN == ResolveScope(registry, d, N, incl)
             IN /\ scope.ceiling \in 1..N
                /\ mc > N =>
                     /\ scope = atN
                     /\ EligibleChunks(registry, scope)
                          = EligibleChunks(registry, atN)

\* C3, page: the slider and the ceiling do not exceed the chapter count
\* recorded on the selected option
SliderWithinSelected ==
    LET chapters == filterOptions[selectedIndex].chapters
    IN chapters # 0 =>
         /\ sliderValue <= chapters
         /\ spoilerProtectionEnabled => maxChapter <= chapters

\* C3: with a single document of N >= 1 chapters selected the effective
\* ceiling is clamped to [1, N], a ceiling above N behaves as N, and the
\* page's slider value and maxChapter (spoiler protection on) never exceed
\* the chapter count recorded for the selected option.
Thm_C3 == CeilingClamped /\ SliderWithinSelected

\* spoiler protection is on, a three-chapter book is selected and slider
\* and ceiling stand at 3, a position the user cannot drag the slider to
Wit_C3 ==
    /\ spoilerProtectionEnabled
    /\ selectedIndex > 1
    /\ filterOptions[selectedIndex].chapters = 3
    /\ sliderValue = 3
    /\ maxChapter = 3

\* C4, service: the answer says that the spoiler filter is active exactly
\* when the scope has a ceiling, echoes that ceiling, and cites only chunks
\* the ceiling admits
EchoIsCeiling ==
    \A i \in 1..MaxAsks :
      Answered(i) =>
        LET expected == ExpectedCeiling(registry, asks[i].document_id,
                                        asks[i].max_chapter)
        IN /\ asks[i].spoiler_filter_active = (expected # 0)
           /\ asks[i].echo = expected
           /\ \A c \in asks[i].sources :
                \/ expected = 0
                \/ c.ref
                \/ c.chapter <= expected
                \/ registry[c.doc].total_chapters = 0

\* C4, page: the banner of a rendered answer is the max_chapter of its
\* response
BannerIsEcho ==
    \A i \in 1..MaxAsks :
      (Answered(i) /\ Finishes(i) /\ messages' # messages
                   /\ LastMessage(messages').kind = "answer")
      => LastMessage(messages').banner =
           (IF asks[i].spoiler_filter_active THEN asks[i].echo ELSE 0)

\* C4: spoiler_filter_active holds in an answer iff the resolved scope had
\* a chapter ceiling, max_chapter echoes that ceiling, and the banner of
\* the rendered answer shows the echoed value, not the page's maxChapter.
Thm_C4 == []EchoIsCeiling /\ [][BannerIsEcho]_vars

\* an answer is shown under a banner that differs from the page's ceiling
Wit_C4 ==
    /\ messages # <<>>
    /\ LastMessage(messages).kind = "answer"
    /\ LastMessage(messages).banner # 0
    /\ LastMessage(messages).banner # maxChapter

ReferenceChunks(E) == { c \in E : c.ref }

\* C5: for every registry, document filter and ceiling, the reference
\* chunks eligible with include_reference = true include those eligible
\* with include_reference = false.
Thm_C5 ==
    \A d \in {0} \cup DOMAIN registry :
      \A mc \in CeilingInputs :
        ReferenceChunks(EligibleChunks(registry,
                                       ResolveScope(registry, d, mc, FALSE)))
        \subseteq
        ReferenceChunks(EligibleChunks(registry,
                                       ResolveScope(registry, d, mc, TRUE)))

\* an answer under a ceiling cites a reference chunk within the ceiling and
\* one beyond it
Wit_C5 ==
    \E i \in 1..MaxAsks :
      /\ Answered(i)
      /\ asks[i].echo # 0
      /\ \E c \in asks[i].sources : c.ref /\ c.chapter > asks[i].echo
      /\ \E c \in asks[i].sources : c.ref /\ c.chapter <= asks[i].echo

\* C6, requests: an ask issued in simple mode goes to /chat/ask without a
\* session_id, and the service hands it no conversational context
SimpleAskIsStateless ==
    \A i \in AsksInFlight :
      asks[i].mode = "simple" =>
        /\ asks[i].endpoint = "/chat/ask"
        /\ asks[i].session_id = 0
        /\ asks[i].context = <<>>

\* C6, frame: no step of an ask issued in simple mode changes the Session
\* Store
SimpleAskKeepsSessions ==
    \A i \in 1..MaxAsks :
      (asks'[i] # asks[i]
         /\ (asks[i].mode = "simple" \/ asks'[i].mode = "simple"))
      => sessions' = sessions

\* C6: in simple mode every askQuestion request is posted to /chat/ask and
\* carries no session_id, and the call neither reads nor writes any session
\* history.
Thm_C6 == []SimpleAskIsStateless /\ [][SimpleAskKeepsSessions]_vars

\* a question asked in simple mode is answered while the store holds the
\* history of an earlier conversation
Wit_C6 ==
    \E i \in 1..MaxAsks :
      /\ asks[i].mode = "simple"
      /\ Answered(i)
      /\ \E s \in DOMAIN sessions : sessions[s] # <<>>

\* C7: a session id is in the Session Store if and only if a question
\* carrying it has been answered; a mode switch, which only generates the
\* id on the page, leaves no session in the store.
Thm_C7 ==
    \A s \in SessionIds :
      s \in DOMAIN sessions <=>
        \/ answeredLog[s] # <<>>
        \/ \E i \in 1..MaxAsks : Answered(i) /\ asks[i].session_id = s

\* conversational mode was entered, the page holds a session id, no
\* question was sent and the store does not know the id
Wit_C7 ==
    /\ currentMode = "conversational"
    /\ sessionId # 0
    /\ sessionId \notin DOMAIN sessions
    /\ messages # <<>>
    /\ LastMessage(messages) = Notice("conversational")
    /\ turns = 0

\* C8, status: with no document registered status() reports no document,
\* no chunk and "not_ready"
ZeroDocsNotReady ==
    DOMAIN registry = {} =>
      ServerStatus(registry) = [documents_loaded |-> 0, total_chunks |-> 0,
                                status |-> "not_ready"]

\* C8, answer: a request whose scope resolves and matches no chunk is
\* answered successfully with no sources and the no-content message
EmptyScopeAnswered ==
    \A i \in 1..MaxAsks :
      Serves(i) =>
        LET scope == ResolveScope(registry, asks[i].document_id,
                                  asks[i].max_chapter, FALSE)
        IN (scope.status = "ok" /\ ~asks'[i].matched)
           => /\ asks'[i].shape = "answer"
              /\ asks'[i].errClass = "none"
              /\ asks'[i].sources = {}
              /\ asks'[i].answer = NoContent

\* C8: with zero documents status() is documents_loaded = 0 and
\* "not_ready", and an ask that names no document, or whose scope matches
\* zero chunks, is a successful answer with empty sources and a no-content
\* message, not an error.
Thm_C8 == []ZeroDocsNotReady /\ [][EmptyScopeAnswered]_vars

\* with no document registered a question over all documents was answered
\* with the no-content message and no sources
Wit_C8 ==
    \E i \in 1..MaxAsks :
      /\ Answered(i)
      /\ DOMAIN registry = {}
      /\ asks[i].document_id = 0
      /\ asks[i].sources = {}
      /\ asks[i].answer = NoContent

\* C9, end of a call: it appends one assistant message, the answer of the
\* response or an error, and enables the Send button
FinishAppendsOne ==
    \A i \in 1..MaxAsks :
      Finishes(i) =>
        /\ Len(messages') = Len(messages) + 1
        /\ SubSeq(messages', 1, Len(messages)) = messages
        /\ LastMessage(messages').role = "assistant"
        /\ LastMessage(messages').kind \in {"answer", "error"}
        /\ LastMessage(messages').kind = "answer" =>
             Answered(i) /\ LastMessage(messages').text = asks[i].answer
        /\ asks[i].shape \in {"error", "detail", "nonjson"} =>
             LastMessage(messages').kind = "error"
        /\ askBtnDisabled' = FALSE

\* C9, start of a call: a request goes out only for a question that is not
\* blank, together with the user's message
IssueAppendsQuestion ==
    \A i \in 1..MaxAsks :
      (asks[i].state = "idle" /\ asks'[i].state = "sent") =>
        /\ Trim(questionInput) # <<>>
        /\ asks'[i].question = Trim(questionInput)
        /\ messages' = Append(messages,
                              Msg("user", "question", asks'[i].question,
                                  0, FALSE))

\* C9, blank question: no request and no user message
BlankDoesNothing ==
    Trim(questionInput) = <<>> =>
      /\ \A i \in 1..MaxAsks :
           ~(asks[i].state = "idle" /\ asks'[i].state # "idle")
      /\ ~(messages' # messages /\ messages' # <<>>
             /\ LastMessage(messages').role = "user")

\* C9: every askQuestion call with a question that is not blank ends having
\* appended exactly one assistant message after the user's message (the
\* answer or an inline error) with the Send button enabled; a blank
\* question issues no request and appends no message.
Thm_C9 ==
    [][FinishAppendsOne /\ IssueAppendsQuestion /\ BlankDoesNothing]_vars

\* a call ended on an error: the error follows the user's message and the
\* Send button is enabled
Wit_C9 ==
    /\ Len(messages) >= 2
    /\ messages[Len(messages) - 1].role = "user"
    /\ LastMessage(messages).kind = "error"
    /\ ~askBtnDisabled
    /\ AsksInFlight = {}

\* C10: the message list holds no answer of a call that the user had
\* abandoned, by a confirmed reset or a switch of mode, before the response
\* arrived.
Claim_C10 ==
    \A k \in 1..Len(messages) :
      ~(messages[k].kind = "answer" /\ messages[k].stale)

\* C11: at every moment at most one ask request per session id is in
\* flight, and the Send button is disabled whenever an ask request is in
\* flight.
Claim_C11 ==
    /\ \A s \in SessionIds :
         Cardinality({ i \in AsksInFlight : asks[i].session_id = s }) <= 1
    /\ AsksInFlight # {} => askBtnDisabled

\* the registry that holds document d alone, with every chunk of a book
WholeBook(d) == [x \in {d} |-> Book]

\* the citations an answer over the whole of document d may carry
WholeSources(d, max_chapter, k) ==
    UNION { Retrieve(EligibleChunks(WholeBook(d),
                                    ResolveScope(WholeBook(d), d,
                                                 max_chapter, incl)), k) :
            incl \in BOOLEAN }

\* C12, exclusion: no request reads a document while a delete holds it
NoReaderWhileDeleting ==
    \A d \in DOMAIN registry : Deleting(d) => ReadersOf(d) = {}

\* C12, result: a served request scoped to one document either is refused
\* with NotFound or cites a selection from the whole chunk set of the
\* document
WholeOrNotFound ==
    \A i \in 1..MaxAsks :
      (asks[i].state = "served" /\ asks[i].document_id # 0) =>
        \/ asks[i].errClass = "NotFound" /\ asks[i].sources = {}
        \/ /\ asks[i].shape = "answer"
           /\ asks[i].sources \in
                WholeSources(asks[i].document_id, asks[i].max_chapter,
                             asks[i].max_chunks)

\* C12: a delete of a document and the resolution of an answer against it
\* never interleave; an answer that overlaps a delete is computed from the
\* whole chunk set of the document as it was before the delete, or the
\* request completes with NotFound; it never cites what a partly applied
\* delete has left.
Thm_C12 == NoReaderWhileDeleting /\ WholeOrNotFound

\* a question about a document was answered from all its chunks while a
\* delete of that document was waiting for it
Wit_C12 ==
    \E i \in 1..MaxAsks : \E j \in 1..MaxDocCalls :
      /\ Answered(i)
      /\ asks[i].document_id # 0
      /\ Cardinality(asks[i].sources) = Cardinality(Book.chunks)
      /\ docCalls[j].kind = "delete"
      /\ docCalls[j].state = "sent"
      /\ docCalls[j].id = asks[i].document_id

\* C13, scope: for a document whose chapter count is unknown a requested
\* ceiling resolves to no ceiling, and the eligible chunks are those of the
\* same request without max_chapter; under a ceiling over all documents
\* every chunk of such a document stays eligible
FailOpenScope ==
    \A d \in DOMAIN registry :
      registry[d].total_chapters = 0 =>
        \A mc \in CeilingInputs : \A incl \in BOOLEAN :
          LET with == ResolveScope(registry, d, mc, incl)
              without == ResolveScope(registry, d, 0, incl)
              all == ResolveScope(registry, 0, mc, incl)
          IN /\ with.ceiling = 0
             /\ EligibleChunks(registry, with)
                  = EligibleChunks(registry, without)
             /\ \A c \in registry[d].chunks :
                  \E e \in EligibleChunks(registry, all) :
                    e.doc = d /\ e.idx = c.idx

\* C13, answer: an answer about such a document reports no spoiler filter
\* and cites what the request without max_chapter may cite
FailOpenAnswer ==
    \A i \in 1..MaxAsks :
      (Answered(i) /\ asks[i].document_id \in DOMAIN registry
                   /\ registry[asks[i].document_id].total_chapters = 0)
      => /\ ~asks[i].spoiler_filter_active
         /\ asks[i].echo = 0
         /\ \E incl \in BOOLEAN :
              asks[i].sources \in
                Retrieve(EligibleChunks(registry,
                                        ResolveScope(registry,
                                                     asks[i].document_id,
                                                     0, incl)),
                         asks[i].max_chunks)

\* C13: a chapter ceiling requested for a document whose total_chapters is
\* 0 applies no chapter filtering: the answer is drawn from the same chunks
\* as the same request without max_chapter, not filtered by the requested
\* ceiling nor by a default chapter count.
Thm_C13 == FailOpenScope /\ FailOpenAnswer

\* with spoiler protection on, a question about a document of unknown
\* chapter count went out with a ceiling and was answered from a chunk of
\* a later chapter
Wit_C13 ==
    \E i \in 1..MaxAsks :
      /\ Answered(i)
      /\ asks[i].max_chapter # 0
      /\ asks[i].document_id \in DOMAIN registry
      /\ registry[asks[i].document_id].total_chapters = 0
      /\ \E c \in asks[i].sources :
           ~c.ref /\ c.chapter > asks[i].max_chapter

\* addMessage rendering the sources of one answer, for every list of up to
\* MaxSources sources
SourcesNext ==
    \/ reduceSource
    \/ joinSources
    \/ joinSourcesChunks

InitSources ==
    /\ PageLoaded({OneBook})
    /\ sourcesArg \in SourceLists
    /\ reduced = 0
    /\ sourceMap = <<>>
    /\ sourceHtml = <<>>

SpecSources == InitSources /\ [][SourcesNext]_vars

\* the place at which a group key first occurs in the list of the response
FirstOccurrence(key) ==
    CHOOSE p \in 1..Len(sourcesArg) :
      /\ GroupKey(sourcesArg[p]) = key
      /\ \A q \in 1..(p - 1) : GroupKey(sourcesArg[q]) # key

\* each distinct group key of the list is shown exactly once
GroupsOnce ==
    sourceHtml # <<>> =>
      /\ { sourceHtml[p].title : p \in 1..Len(sourceHtml) }
           = { GroupKey(sourcesArg[q]) : q \in 1..Len(sourcesArg) }
      /\ \A p, q \in 1..Len(sourceHtml) :
           sourceHtml[p].title = sourceHtml[q].title => p = q

\* each chunk_index occurs at most once within its group, and only if the
\* list has it under that key
ChunksOnce ==
    /\ \A g \in 1..Len(sourceMap) :
         /\ \A p, q \in 1..Len(sourceMap[g].chunks) :
              sourceMap[g].chunks[p] = sourceMap[g].chunks[q] => p = q
         /\ \A p \in 1..Len(sourceMap[g].chunks) :
              \E q \in 1..reduced :
                /\ GroupKey(sourcesArg[q]) = sourceMap[g].key
                /\ sourcesArg[q].chunk_index = sourceMap[g].chunks[p]
    /\ \A g \in 1..Len(sourceHtml) :
         \A p, q \in 1..Len(sourceHtml[g].chunks) :
           sourceHtml[g].chunks[p] = sourceHtml[g].chunks[q] => p = q

\* the groups are shown in the order in which their keys first occur
GroupsInRankedOrder ==
    \A p, q \in 1..Len(sourceHtml) :
      p < q => FirstOccurrence(sourceHtml[p].title)
                 < FirstOccurrence(sourceHtml[q].title)

\* C14: for every sources list of an answer addMessage shows each distinct
\* group key (chapter_title, or document_title when chapter_title is
\* absent) exactly once and each chunk_index at most once within its
\* group, and the groups appear in the order in which their key first
\* occurs in the list returned by retrieval.
Claim_C14 == GroupsOnce /\ ChunksOnce /\ GroupsInRankedOrder

\* modes, resets and questions, one call at a time, with up to MaxSessions
\* session ids
SessionsNext ==
    \/ \E mode \in {"simple", "conversational"} : setMode(mode)
    \/ resetConversation
    \/ resetDeclined
    \/ typeQuestion(<<" ", "a", " ">>)
    \/ /\ AsksInFlight = {}
       /\ askQuestion
    \/ \E i \in 1..MaxAsks : ServerAnswer(i)
    \/ \E i \in 1..MaxAsks : askDeliver(i)

SpecSessions == InitWith({OneBook}) /\ [][SessionsNext]_vars

\* the session ids used so far: the ids sessionId has held, the ids carried
\* by requests, the ids known to the service and the ids with answers
UsedIds ==
    (1..nextSession)
    \cup ({sessionId} \ {0})
    \cup ({ asks[i].session_id : i \in AsksInFlight } \ {0})
    \cup DOMAIN sessions
    \cup { s \in SessionIds : answeredLog[s] # <<>> }

\* a confirmed reset: in conversational mode the session id becomes an id
\* not used before, in simple mode it stays null; the mode is kept
ResetStep ==
    resetConversation =>
      /\ currentMode' = currentMode
      /\ IF currentMode = "conversational"
         THEN sessionId' # 0 /\ sessionId' \notin UsedIds
         ELSE sessionId = 0 /\ sessionId' = 0

\* a declined reset changes neither the mode, nor the session id, nor the
\* messages
DeclinedStep ==
    resetDeclined => UNCHANGED <<currentMode, sessionId, messages>>

\* a request issued in this step carries the current session id
IssuedWithCurrentId ==
    \A i \in 1..MaxAsks :
      (asks[i].state = "idle" /\ asks'[i].state = "sent")
      => asks'[i].session_id = sessionId

\* the current session id is the one generated last: no id given up by a
\* reset or by leaving conversational mode is current again
LatestId == sessionId \in {0, nextSession}

\* C15: a confirmed resetConversation in conversational mode replaces
\* sessionId with a newly generated id that differs from every id used
\* before, so that no ask issued after the reset carries a session id used
\* before the reset; in simple mode it leaves sessionId null; a declined
\* confirmation leaves currentMode, sessionId and the messages unchanged.
Thm_C15 ==
    /\ []LatestId
    /\ [][ResetStep /\ DeclinedStep /\ IssuedWithCurrentId]_vars

\* after an answered question in one session the conversation was reset,
\* and a question went out under the new session id
Wit_C15 ==
    \E i \in 1..MaxAsks :
      /\ messages # <<>>
      /\ messages[1] = Notice("new_session")
      /\ asks[i].state = "sent"
      /\ ~asks[i].abandoned
      /\ asks[i].session_id = sessionId
      /\ sessionId = 2
      /\ 1 \in DOMAIN sessions
      /\ answeredLog[1] # <<>>

\* the whole page: modes, resets, one question, spoiler protection,
\* uploads, deletes and listings, each operation begun when no request
\* is in flight; no notice is added to a pane of PageMessages messages
PageRoom(n) == Len(messages) + n <= PageMessages

\* no request is in flight
Quiet == AsksInFlight = {} /\ DocCallsInFlight = {}

PageNext ==
    \/ \E mode \in {"simple", "conversational"} :
         /\ Quiet /\ PageRoom(1)
         /\ setMode(mode)
    \/ /\ Quiet
       /\ resetConversation
    \/ resetDeclined
    \/ typeQuestion(<<" ", "a", " ">>)
    \/ /\ Quiet
       /\ turns = 0
       /\ askQuestion
    \/ \E i \in 1..MaxAsks : askDeliver(i)
    \/ \E i \in 1..MaxAsks : ServerAnswer(i)
    \/ \E checked \in BOOLEAN :
         /\ Quiet
         /\ toggleSpoilerProtection(checked)
    \/ /\ Quiet /\ PageRoom(1)
       /\ uploadDocument
    \/ \E i \in 1..MaxDocCalls : uploadResponse(i)
    \/ \E i \in 1..MaxDocCalls : processResponse(i)
    \/ \E i \in 1..MaxDocCalls : ServerUpload(i)
    \/ \E i \in 1..MaxDocCalls : ServerProcess(i)
    \/ \E id \in DocIds :
         /\ Quiet /\ PageRoom(1)
         /\ deleteDocument(id)
    \/ \E i \in 1..MaxDocCalls : deleteResponse(i)
    \/ \E i \in 1..MaxDocCalls : ServerDelete(i)
    \/ \E i \in 1..MaxDocCalls : ServerListDocuments(i)
    \/ \E i \in 1..MaxDocCalls : loadDocumentsResponse(i)

SpecPage == InitWith({OneBook}) /\ [][PageNext]_vars

\* there is a session id exactly in conversational mode
ModeSession == (sessionId # 0) <=> (currentMode = "conversational")

\* every request to /conversation/ask carries a session id
ConversationCarriesId ==
    \A i \in AsksInFlight :
      asks[i].endpoint = "/conversation/ask" => asks[i].session_id # 0

\* a step that changes the session id or the mode is a step of setMode or
\* of a confirmed resetConversation
OnlyModeAndReset ==
    (sessionId' # sessionId \/ currentMode' # currentMode)
    => \/ \E mode \in {"simple", "conversational"} : setMode(mode)
       \/ resetConversation

\* C16: after any sequence of setMode, resetConversation, askQuestion,
\* toggleSpoilerProtection, upload, delete and load operations sessionId
\* is non-null if and only if currentMode is 'conversational'; every
\* request to /conversation/ask carries a session_id, and only setMode and
\* a confirmed resetConversation change sessionId or currentMode.
Thm_C16 ==
    /\ [](ModeSession /\ ConversationCarriesId)
    /\ [][OnlyModeAndReset]_vars

\* in conversational mode, after an upload and with spoiler protection on,
\* a question is on its way to /conversation/ask
Wit_C16 ==
    \E i \in AsksInFlight :
      /\ currentMode = "conversational"
      /\ spoilerProtectionEnabled
      /\ nextDocId > 2
      /\ asks[i].state = "sent"
      /\ asks[i].endpoint = "/conversation/ask"
      /\ asks[i].session_id = sessionId

\* without spoiler protection there is no ceiling; with it the ceiling is
\* the value of the slider, between 1 and the maximum of the slider
CeilingOfSlider ==
    IF spoilerProtectionEnabled
    THEN /\ maxChapter = sliderValue
         /\ 1 <= maxChapter /\ maxChapter <= sliderMax
    ELSE maxChapter = 0

\* a request issued in this step carries max_chapter exactly if spoiler
\* protection is on, and then a value between 1 and the maximum of the
\* slider
IssuedWithCeiling ==
    \A i \in 1..MaxAsks :
      (asks[i].state = "idle" /\ asks'[i].state = "sent")
      => /\ (asks'[i].max_chapter # 0) <=> spoilerProtectionEnabled
         /\ spoilerProtectionEnabled
              => /\ 1 <= asks'[i].max_chapter
                 /\ asks'[i].max_chapter <= sliderMax

\* enabling spoiler protection with the slider at 1 or below sets the
\* ceiling to min(10, maximum of the slider)
EnabledAtStart ==
    (toggleSpoilerProtection(TRUE) /\ sliderValue <= 1)
    => maxChapter' = Min(10, sliderMax)

\* C17: after any sequence of toggleSpoilerProtection,
\* updateChapterDisplay, document selection and loadDocuments events an
\* ask request carries max_chapter if and only if spoiler protection is
\* enabled when askQuestion is called, the value sent is an integer
\* between 1 and the slider's current maximum, maxChapter is null whenever
\* spoiler protection is disabled, and enabling spoiler protection while
\* the slider value is at most 1 sets the ceiling to min(10, slider
\* maximum).
Thm_C17 ==
    /\ []CeilingOfSlider
    /\ [][IssuedWithCeiling /\ EnabledAtStart]_vars

\* with a book of three chapters selected, spoiler protection was enabled
\* at slider value 1 and a question went out with max_chapter 3
Wit_C17 ==
    \E i \in AsksInFlight :
      /\ spoilerProtectionEnabled
      /\ sliderMax = 3
      /\ maxChapter = 3
      /\ asks[i].state = "sent"
      /\ asks[i].max_chapter = 3
      /\ asks[i].document_id # 0

\* uploads, deletes and the listings they start, every request granted,
\* with up to MaxDocCalls requests in flight and the responses in any order
LoadsNext ==
    \/ uploadDocument
    \/ \E i \in 1..MaxDocCalls : uploadResponse(i)
    \/ \E i \in 1..MaxDocCalls : processResponse(i)
    \/ \E id \in DocIds : deleteDocument(id)
    \/ \E i \in 1..MaxDocCalls : deleteResponse(i)
    \/ \E i \in 1..MaxDocCalls : loadDocumentsResponse(i)
    \/ \E i \in 1..MaxDocCalls : ServerUpload(i)
    \/ \E i \in 1..MaxDocCalls : ServerProcess(i)
    \/ \E i \in 1..MaxDocCalls : ServerDelete(i)
    \/ \E i \in 1..MaxDocCalls : ServerListDocuments(i)

SpecLoads == InitWith(Shelves) /\ [][LoadsNext]_vars

\* the documents of the list, and the documents of the dropdown
ListedIds == { documentList[k].id : k \in 1..Len(documentList) }

SelectableIds ==
    { filterOptions[k].value : k \in 1..Len(filterOptions) } \ {0}

\* C18: once every outstanding loadDocuments response has arrived and no
\* upload or delete is pending, the document list and the filter dropdown
\* show exactly the documents in the registry, also when several
\* loadDocuments calls overlap and their responses arrive in another order
\* than they were issued.
Claim_C18 ==
    DocCallsInFlight = {}
    => /\ ListedIds = DOMAIN registry
       /\ SelectableIds = DOMAIN registry
====
